---------------------------- MODULE Spec2Model ----------------------------
(***************************************************************************)
(* Model of the mitmproxy addon YouTubeInterceptor                         *)
(* (src/python/mitmproxy-addons/youtube_interceptor.py).                   *)
(*                                                                         *)
(* Strings that the code searches (hosts, content types, domain entries)   *)
(* are sequences of one-character strings.  A response body is a sequence  *)
(* of markup tokens; BeautifulSoup's tree is a nested record.  Every       *)
(* statement of YouTubeInterceptor.response is one action, taken by one    *)
(* of several concurrently handled exchanges (the @concurrent decorator).  *)
(***************************************************************************)
EXTENDS Integers, Sequences, FiniteSets, TLC

\* ------------------------------------------------------------------ bounds

\* number of exchanges handled concurrently
NumExchanges == 2
\* longest response body, in markup tokens, that Init draws
MaxBodyLen == 3
\* the case of each of the first CaseWidth characters of a probed string varies freely
CaseWidth == 3

Exchanges == 1..NumExchanges

\* Python's None, where a str is expected, where a body text is expected and where a
\* reference to a Tag is expected
None == <<"None">>
NoneText == <<[kind |-> "None", val |-> "None"]>>
NoneRef == <<0>>

VARIABLES
  youtube_domains,   \* self.youtube_domains
  injection_script,  \* self.injection_script
  flow,              \* flow[i]: the exchange the proxy handed to response(): request and response
  entry,             \* entry[i]: flow[i] as it was when response() was entered (history)
  pc,                \* pc[i]: the statement of response() that exchange i executes next
  content,           \* local variable content
  soup,              \* local variable soup (slot of the tree)
  head,              \* local variable head: a reference (path) into soup
  modified_content,  \* local variable modified_content
  exc,               \* exc[i]: the statements of exchange i that raised, in order
  log,               \* log[i]: the records the handler of exchange i gave to the logger
  propagated,        \* propagated[i]: an exception left response()
  probe,             \* argument of a direct call of is_youtube_domain / is_html_response
  verdict            \* what that call returned

vars == <<youtube_domains, injection_script, flow, entry, pc, content, soup, head,
          modified_content, exc, log, propagated, probe, verdict>>

\* ------------------------------------------------------------ str methods

LowerAlphabet == <<"a", "b", "c", "d", "e", "f", "g", "h", "i", "j", "k", "l", "m",
                   "n", "o", "p", "q", "r", "s", "t", "u", "v", "w", "x", "y", "z">>
UpperAlphabet == <<"A", "B", "C", "D", "E", "F", "G", "H", "I", "J", "K", "L", "M",
                   "N", "O", "P", "Q", "R", "S", "T", "U", "V", "W", "X", "Y", "Z">>

\* the lower-case letter of each upper-case letter, and the reverse
ToLower == [c \in {UpperAlphabet[k] : k \in 1..Len(UpperAlphabet)} |->
              LowerAlphabet[CHOOSE k \in 1..Len(UpperAlphabet) : UpperAlphabet[k] = c]]
ToUpper == [c \in {LowerAlphabet[k] : k \in 1..Len(LowerAlphabet)} |->
              UpperAlphabet[CHOOSE k \in 1..Len(LowerAlphabet) : LowerAlphabet[k] = c]]

LowerChar(c) == IF c \in DOMAIN ToLower THEN ToLower[c] ELSE c

UpperChar(c) == IF c \in DOMAIN ToUpper THEN ToUpper[c] ELSE c

\* str.lower()
RECURSIVE Lower(_)
Lower(s) == IF s = <<>> THEN <<>> ELSE <<LowerChar(Head(s))>> \o Lower(Tail(s))

\* `needle in hay` for two str
Contains(hay, needle) ==
  \E k \in 0..(Len(hay) - Len(needle)) :
     \A j \in 1..Len(needle) : hay[k + j] = needle[j]

\* truth value of a str or None (`if not x`)
Truthy(x) == x # None /\ x # <<>>

\* --------------------------------------------------------- __init__ state

YOUTUBE_COM == <<"y", "o", "u", "t", "u", "b", "e", ".", "c", "o", "m">>
M_YOUTUBE_COM == <<"m", ".">> \o YOUTUBE_COM
WWW_YOUTUBE_COM == <<"w", "w", "w", ".">> \o YOUTUBE_COM
MUSIC_YOUTUBE_COM == <<"m", "u", "s", "i", "c", ".">> \o YOUTUBE_COM

InitDomains == <<YOUTUBE_COM, M_YOUTUBE_COM, WWW_YOUTUBE_COM, MUSIC_YOUTUBE_COM>>

\* The script literal: a newline, the lines of the IIFE, a newline.  "\n" and " " are
\* the whitespace str.strip() removes; the other tokens stand for runs of script text.
InitScript == <<"\n", "(function() {", "\n", " ", "logYtInitialData();", "\n", "})();", "\n">>

TEXT_HTML == <<"t", "e", "x", "t", "/", "h", "t", "m", "l">>

\* ------------------------------------------------------------ the matcher

\* is_youtube_domain without host.lower()
IsYoutubeDomainAnyCase(domains, host) ==
  IF ~Truthy(host) THEN FALSE
  ELSE \E d \in 1..Len(domains) : Contains(host, domains[d])

\* is_youtube_domain(self, host)
is_youtube_domain(domains, host) ==
  IF ~Truthy(host) THEN FALSE
  ELSE LET h == Lower(host)
       IN  \E d \in 1..Len(domains) : Contains(h, domains[d])

\* response.headers.get(key, default)
HeadersGet(headers, key, default) ==
  IF key \in DOMAIN headers THEN headers[key] ELSE default

\* is_html_response without .lower()
IsHtmlResponseCaseSensitive(response) ==
  LET content_type == HeadersGet(response.headers, "content-type", <<>>)
  IN  Contains(content_type, TEXT_HTML)

\* is_html_response(self, response)
is_html_response(response) ==
  LET content_type == Lower(HeadersGet(response.headers, "content-type", <<>>))
  IN  Contains(content_type, TEXT_HTML)

\* ------------------------------------------------------- markup and text

\* A body text is a sequence of tokens: a start tag, an end tag, or one character of
\* text.  "a" is an ASCII character, "E9" the character U+00E9; the tokens of the
\* injection script are runs of ASCII characters.
Open(n) == [kind |-> "open", val |-> n]
Close(n) == [kind |-> "close", val |-> n]
Text(c) == [kind |-> "text", val |-> c]

\* len() of the str a token or tag name stands for
StrLen(s) ==
  CASE s = "html" -> 4
    [] s = "head" -> 4
    [] s = "p" -> 1
    [] s = "script" -> 6
    [] s = "(function() {" -> 13
    [] s = "logYtInitialData();" -> 19
    [] s = "})();" -> 5
    [] OTHER -> 1

\* len(c.encode(charset)) for the text a text token stands for
CharBytes(c, charset) ==
  IF c = "E9" THEN (IF charset = "utf-8" THEN 2 ELSE 1) ELSE StrLen(c)

TokenBytes(t, charset) ==
  CASE t.kind = "open" -> StrLen(t.val) + 2
    [] t.kind = "close" -> StrLen(t.val) + 3
    [] OTHER -> CharBytes(t.val, charset)

RECURSIVE SumBytes(_, _, _)
SumBytes(text, k, charset) ==
  IF k > Len(text) THEN 0
  ELSE TokenBytes(text[k], charset) + SumBytes(text, k + 1, charset)

\* len(text.encode(charset))
EncodedLen(text, charset) == IF text = NoneText THEN 0 ELSE SumBytes(text, 1, charset)

CHARSET_UTF8 == <<"c", "h", "a", "r", "s", "e", "t", "=", "u", "t", "f", "-", "8">>

\* The charset mitmproxy encodes and decodes a message's text with: the charset
\* parameter of content-type, latin-1 when there is none.
WireCharset(headers) ==
  IF Contains(Lower(HeadersGet(headers, "content-type", <<>>)), CHARSET_UTF8)
  THEN "utf-8" ELSE "latin-1"

\* str.strip(): drop leading and trailing whitespace
IsSpace(c) == c \in {"\n", " "}

RECURSIVE LStrip(_)
LStrip(s) == IF s # <<>> /\ IsSpace(Head(s)) THEN LStrip(Tail(s)) ELSE s

RECURSIVE RStrip(_)
RStrip(s) ==
  IF s # <<>> /\ IsSpace(s[Len(s)]) THEN RStrip(SubSeq(s, 1, Len(s) - 1)) ELSE s

Strip(s) == RStrip(LStrip(s))

\* ----------------------------------------------------- BeautifulSoup tree

\* A Tag has a name and children; a NavigableString has the name "#text" and its
\* characters.  The BeautifulSoup object is the Tag named "[document]".
Tag(n, kids) == [name |-> n, text |-> <<>>, children |-> kids]
NavigableString(chars) == [name |-> "#text", text |-> chars, children |-> <<>>]
EmptySoup == Tag("[document]", <<>>)

\* html.parser keeps a stack of the open tags; stack[1] is the document.
AppendChild(stack, node) ==
  [stack EXCEPT ![Len(stack)].children = Append(@, node)]

\* the innermost open tag ends: it becomes the last child of the tag around it
CloseTop(stack) ==
  AppendChild(SubSeq(stack, 1, Len(stack) - 1), stack[Len(stack)])

RECURSIVE PopToDepth(_, _)
PopToDepth(stack, depth) ==
  IF Len(stack) <= depth THEN stack ELSE PopToDepth(CloseTop(stack), depth)

\* character data: joined to the string before it when there is one
HandleData(stack, c) ==
  LET kids == stack[Len(stack)].children
  IN  IF kids # <<>> /\ kids[Len(kids)].name = "#text"
      THEN [stack EXCEPT ![Len(stack)].children[Len(kids)].text = Append(@, c)]
      ELSE AppendChild(stack, NavigableString(<<c>>))

\* an end tag closes the innermost open tag of that name and all inside it;
\* an end tag that matches no open tag is dropped
HandleEndTag(stack, n) ==
  LET open == {k \in 2..Len(stack) : stack[k].name = n}
  IN  IF open = {} THEN stack
      ELSE PopToDepth(stack, (CHOOSE k \in open : \A j \in open : j <= k) - 1)

Feed(stack, t) ==
  CASE t.kind = "open" -> Append(stack, Tag(t.val, <<>>))
    [] t.kind = "close" -> HandleEndTag(stack, t.val)
    [] OTHER -> HandleData(stack, t.val)

RECURSIVE FeedAll(_, _, _)
FeedAll(stack, text, k) ==
  IF k > Len(text) THEN stack ELSE FeedAll(Feed(stack, text[k]), text, k + 1)

\* BeautifulSoup(content, 'html.parser')
BeautifulSoup(text) == PopToDepth(FeedAll(<<EmptySoup>>, text, 1), 1)[1]

\* node.contents[path[1]].contents[path[2]]...
RECURSIVE NodeAt(_, _)
NodeAt(node, path) ==
  IF path = <<>> THEN node ELSE NodeAt(node.children[Head(path)], Tail(path))

\* the paths of the descendants of node named n, in document order
RECURSIVE PathsFrom(_, _, _)
PathsFrom(node, n, c) ==
  IF c > Len(node.children) THEN <<>>
  ELSE LET kid == node.children[c]
           below == PathsFrom(kid, n, 1)
       IN  (IF kid.name = n THEN << <<c>> >> ELSE <<>>)
           \o [k \in 1..Len(below) |-> <<c>> \o below[k]]
           \o PathsFrom(node, n, c + 1)

\* soup.find(n): the first descendant named n, or None
Find(tree, n) ==
  LET found == PathsFrom(tree, n, 1)
  IN  IF found = <<>> THEN NoneRef ELSE found[1]

InsertSeq(s, pos, x) == SubSeq(s, 1, pos) \o <<x>> \o SubSeq(s, pos + 1, Len(s))

RECURSIVE InsertAt(_, _, _, _)
InsertAt(node, path, pos, new) ==
  IF path = <<>>
  THEN [node EXCEPT !.children = InsertSeq(@, pos, new)]
  ELSE [node EXCEPT !.children[Head(path)] = InsertAt(@, Tail(path), pos, new)]

\* tag.append(new) for the tag that ref refers to
AppendTo(tree, ref, new) ==
  InsertAt(tree, ref, Len(NodeAt(tree, ref).children), new)

\* tag.insert(0, new) for the tag that ref refers to
InsertFirst(tree, ref, new) == InsertAt(tree, ref, 0, new)

\* str(soup)
RECURSIVE Decode(_)
RECURSIVE DecodeAll(_, _)
DecodeAll(kids, k) ==
  IF k > Len(kids) THEN <<>> ELSE Decode(kids[k]) \o DecodeAll(kids, k + 1)

Decode(node) ==
  CASE node.name = "#text" -> [k \in 1..Len(node.text) |-> Text(node.text[k])]
    [] node.name = "[document]" -> DecodeAll(node.children, 1)
    [] OTHER -> <<Open(node.name)>> \o DecodeAll(node.children, 1) \o <<Close(node.name)>>

\* ------------------------------------------------------------- exchanges

GOOGLE_COM == <<"g", "o", "o", "g", "l", "e", ".", "c", "o", "m">>
MIXED_M_YOUTUBE_COM == <<"M", ".", "Y", "o", "u", "T", "u", "b", "e", ".", "C", "o", "m">>
HTML_UTF8 == TEXT_HTML \o <<";", " ">> \o CHARSET_UTF8
HTML_LATIN1 == TEXT_HTML \o <<";", " ", "c", "h", "a", "r", "s", "e", "t", "=",
                              "i", "s", "o", "-", "8", "8", "5", "9", "-", "1">>
APPLICATION_JSON == <<"a", "p", "p", "l", "i", "c", "a", "t", "i", "o", "n", "/",
                      "j", "s", "o", "n">>

\* headers[key] = value
SetHeader(headers, key, value) ==
  [k \in DOMAIN headers \cup {key} |-> IF k = key THEN value ELSE headers[k]]

\* A response as the proxy delivers it: content-length states the length of the body
\* as it is encoded on the wire; content_type = None is a response without the header.
Response(content_type, text) ==
  LET typed == IF content_type = None THEN <<>>
               ELSE SetHeader(<<>>, "content-type", content_type)
  IN  [headers |-> SetHeader(typed, "content-length", EncodedLen(text, WireCharset(typed))),
       text |-> text]

\* flow.request.pretty_url: a str the handler only passes on to the logger
PrettyUrl(host) ==
  CASE host = YOUTUBE_COM -> "https://youtube.com/"
    [] host = M_YOUTUBE_COM -> "https://m.youtube.com/"
    [] host = WWW_YOUTUBE_COM -> "https://www.youtube.com/"
    [] host = MIXED_M_YOUTUBE_COM -> "https://M.YouTube.Com/"
    [] host = GOOGLE_COM -> "https://google.com/"
    [] OTHER -> "https://host/"

HTTPFlow(host, content_type, text) ==
  [request |-> [pretty_host |-> host, pretty_url |-> PrettyUrl(host)],
   response |-> Response(content_type, text)]

DocTokens == {Open("html"), Close("html"), Open("head"), Close("head"), Open("p"),
              Text("a"), Text("E9")}

Bodies == UNION {[1..n -> DocTokens] : n \in 0..MaxBodyLen} \cup {NoneText}

\* the exchanges one handler is checked on
Flows ==
  {HTTPFlow(h, c, b) : h \in {MIXED_M_YOUTUBE_COM, GOOGLE_COM},
                       c \in {HTML_UTF8, HTML_LATIN1, APPLICATION_JSON, None},
                       b \in Bodies}

OtherFlow == HTTPFlow(GOOGLE_COM, HTML_UTF8, <<Open("html"), Close("html")>>)

\* the exchanges that concurrent handlers are checked on
ConcurrentFlows ==
  <<HTTPFlow(M_YOUTUBE_COM, HTML_LATIN1, <<Open("html"), Text("E9")>>),
    HTTPFlow(WWW_YOUTUBE_COM, HTML_UTF8, <<Open("head"), Text("a")>>),
    HTTPFlow(YOUTUBE_COM, HTML_UTF8, <<Open("p")>>)>>

\* ---------------------------------------------------------------- logging

\* A log record: its level, the literal text of the message and the URL the f-string
\* puts into it (NoUrl when it puts none).
NoUrl == ""
Record(level, text, url) == [level |-> level, text |-> text, url |-> url]

\* -------------------------------------------------- response(self, flow)

Goto(i, label) == pc' = [pc EXCEPT ![i] = label]

Emit(i, record) == log' = [log EXCEPT ![i] = Append(@, record)]

\* modified_content is a local variable: each invocation has its own
\* (kept on self instead, it would be one variable for all invocations)
SharedModifiedContent(i) == 1
ModifiedContentOf(i) == i

\* if not self.is_youtube_domain(flow.request.pretty_host): return
CheckHost(i) ==
  /\ pc[i] = "host"
  /\ IF is_youtube_domain(youtube_domains, flow[i].request.pretty_host)
     THEN Goto(i, "content_type")
     ELSE Goto(i, "done")
  /\ UNCHANGED <<youtube_domains, injection_script, flow, entry, content, soup, head,
                 modified_content, exc, log, propagated, probe, verdict>>

\* if not self.is_html_response(flow.response): return
CheckHtml(i) ==
  /\ pc[i] = "content_type"
  /\ IF is_html_response(flow[i].response)
     THEN Goto(i, "get_text")
     ELSE Goto(i, "done")
  /\ UNCHANGED <<youtube_domains, injection_script, flow, entry, content, soup, head,
                 modified_content, exc, log, propagated, probe, verdict>>

\* content = flow.response.get_text(); if not content: return
GetText(i) ==
  /\ pc[i] = "get_text"
  /\ content' = [content EXCEPT ![i] = flow[i].response.text]
  /\ IF content'[i] # NoneText /\ content'[i] # <<>>
     THEN Goto(i, "log_intercept")
     ELSE Goto(i, "done")
  /\ UNCHANGED <<youtube_domains, injection_script, flow, entry, soup, head,
                 modified_content, exc, log, propagated, probe, verdict>>

\* logger.info(f"Intercepting YouTube response: {flow.request.pretty_url}")
LogIntercept(i) ==
  /\ pc[i] = "log_intercept"
  /\ Emit(i, Record("info", "Intercepting YouTube response: ", flow[i].request.pretty_url))
  /\ Goto(i, "parse")
  /\ UNCHANGED <<youtube_domains, injection_script, flow, entry, content, soup, head,
                 modified_content, exc, propagated, probe, verdict>>

\* soup = BeautifulSoup(content, 'html.parser')
ParseHtml(i) ==
  /\ pc[i] = "parse"
  /\ soup' = [soup EXCEPT ![i] = BeautifulSoup(content[i])]
  /\ Goto(i, "find_head")
  /\ UNCHANGED <<youtube_domains, injection_script, flow, entry, content, head,
                 modified_content, exc, log, propagated, probe, verdict>>

\* the parser raises: except Exception as e (the inner try)
ParseRaise(i) ==
  /\ pc[i] = "parse"
  /\ exc' = [exc EXCEPT ![i] = Append(@, "parse")]
  /\ Goto(i, "parse_except")
  /\ UNCHANGED <<youtube_domains, injection_script, flow, entry, content, soup, head,
                 modified_content, log, propagated, probe, verdict>>

\* logger.error(f"Failed to parse HTML: {e}"); return
LogParseError(i) ==
  /\ pc[i] = "parse_except"
  /\ Emit(i, Record("error", "Failed to parse HTML: ", NoUrl))
  /\ Goto(i, "done")
  /\ UNCHANGED <<youtube_domains, injection_script, flow, entry, content, soup, head,
                 modified_content, exc, propagated, probe, verdict>>

\* head = soup.find('head'); if not head: ...
FindHead(i) ==
  /\ pc[i] = "find_head"
  /\ head' = [head EXCEPT ![i] = Find(soup[i], "head")]
  /\ IF head'[i] = NoneRef THEN Goto(i, "find_html") ELSE Goto(i, "script")
  /\ UNCHANGED <<youtube_domains, injection_script, flow, entry, content, soup,
                 modified_content, exc, log, propagated, probe, verdict>>

\* the fallback without the creation of a head: warn whenever there is no head
FindHtmlNeverCreates(i) ==
  /\ pc[i] = "find_html"
  /\ Goto(i, "warn")
  /\ UNCHANGED <<youtube_domains, injection_script, flow, entry, content, soup, head,
                 modified_content, exc, log, propagated, probe, verdict>>

\* the fallback without the return after the warning: the body is rewritten anyway
FindHtmlFallsThrough(i) ==
  /\ pc[i] = "find_html"
  /\ LET html_tag == Find(soup[i], "html")
     IN  IF html_tag # NoneRef
         THEN /\ soup' = [soup EXCEPT ![i] = InsertFirst(@, html_tag, Tag("head", <<>>))]
              /\ head' = [head EXCEPT ![i] = html_tag \o <<1>>]
              /\ Goto(i, "script")
         ELSE /\ UNCHANGED <<soup, head>>
              /\ Goto(i, "serialize")
  /\ UNCHANGED <<youtube_domains, injection_script, flow, entry, content,
                 modified_content, exc, log, propagated, probe, verdict>>

\* html_tag = soup.find('html')
\* if html_tag: head = soup.new_tag('head'); html_tag.insert(0, head)
FindHtml(i) ==
  /\ pc[i] = "find_html"
  /\ LET html_tag == Find(soup[i], "html")
     IN  IF html_tag # NoneRef
         THEN /\ soup' = [soup EXCEPT ![i] = InsertFirst(@, html_tag, Tag("head", <<>>))]
              /\ head' = [head EXCEPT ![i] = html_tag \o <<1>>]
              /\ Goto(i, "script")
         ELSE /\ UNCHANGED <<soup, head>>
              /\ Goto(i, "warn")
  /\ UNCHANGED <<youtube_domains, injection_script, flow, entry, content,
                 modified_content, exc, log, propagated, probe, verdict>>

\* logger.warning("No head or html tag found, cannot inject script"); return
WarnNoSkeleton(i) ==
  /\ pc[i] = "warn"
  /\ Emit(i, Record("warning", "No head or html tag found, cannot inject script", NoUrl))
  /\ Goto(i, "done")
  /\ UNCHANGED <<youtube_domains, injection_script, flow, entry, content, soup, head,
                 modified_content, exc, propagated, probe, verdict>>

\* script_tag = soup.new_tag('script')
\* script_tag.string = self.injection_script.strip()
\* head.insert(0, script_tag)
InsertScript(i) ==
  /\ pc[i] = "script"
  /\ LET script_tag == Tag("script", <<NavigableString(Strip(injection_script))>>)
     IN  soup' = [soup EXCEPT ![i] = InsertFirst(@, head[i], script_tag)]
  /\ Goto(i, "serialize")
  /\ UNCHANGED <<youtube_domains, injection_script, flow, entry, content, head,
                 modified_content, exc, log, propagated, probe, verdict>>

\* modified_content = str(soup)
Serialize(i) ==
  /\ pc[i] = "serialize"
  /\ modified_content' = [modified_content EXCEPT ![ModifiedContentOf(i)] = Decode(soup[i])]
  /\ Goto(i, "set_text")
  /\ UNCHANGED <<youtube_domains, injection_script, flow, entry, content, soup, head,
                 exc, log, propagated, probe, verdict>>

\* flow.response.set_text(modified_content)
SetText(i) ==
  /\ pc[i] = "set_text"
  /\ flow' = [flow EXCEPT ![i].response.text = modified_content[ModifiedContentOf(i)]]
  /\ Goto(i, "content_length")
  /\ UNCHANGED <<youtube_domains, injection_script, entry, content, soup, head,
                 modified_content, exc, log, propagated, probe, verdict>>

\* flow.response.headers['content-length'] = str(len(modified_content.encode('utf-8')))
SetContentLength(i) ==
  /\ pc[i] = "content_length"
  /\ flow' = [flow EXCEPT ![i].response.headers =
                SetHeader(@, "content-length",
                          EncodedLen(modified_content[ModifiedContentOf(i)], "utf-8"))]
  /\ Goto(i, "log_success")
  /\ UNCHANGED <<youtube_domains, injection_script, entry, content, soup, head,
                 modified_content, exc, log, propagated, probe, verdict>>

\* logger.info(f"Successfully injected logging script into {flow.request.pretty_url}")
LogSuccess(i) ==
  /\ pc[i] = "log_success"
  /\ Emit(i, Record("info", "Successfully injected logging script into ",
                    flow[i].request.pretty_url))
  /\ Goto(i, "done")
  /\ UNCHANGED <<youtube_domains, injection_script, flow, entry, content, soup, head,
                 modified_content, exc, propagated, probe, verdict>>

\* the statements of the outer try block; "parse" is inside the inner try as well
TryBlock == {"host", "content_type", "get_text", "log_intercept", "parse_except",
             "find_head", "find_html", "warn", "script", "serialize", "set_text",
             "content_length", "log_success"}

\* The statement at pc[i] raises instead of completing: except Exception as e
Raise(i) ==
  /\ pc[i] \in TryBlock
  /\ exc' = [exc EXCEPT ![i] = Append(@, pc[i])]
  /\ Goto(i, "except")
  /\ UNCHANGED <<youtube_domains, injection_script, flow, entry, content, soup, head,
                 modified_content, log, propagated, probe, verdict>>

\* logger.error(f"Error processing response for {flow.request.pretty_url}: {e}")
LogError(i) ==
  /\ pc[i] = "except"
  /\ Emit(i, Record("error", "Error processing response for ", flow[i].request.pretty_url))
  /\ Goto(i, "done")
  /\ UNCHANGED <<youtube_domains, injection_script, flow, entry, content, soup, head,
                 modified_content, exc, propagated, probe, verdict>>

\* The statement of the except clause raises (flow.request.pretty_url, the formatting of
\* e, the logger): no handler encloses it, the exception leaves response().
LogErrorRaise(i) ==
  /\ pc[i] = "except"
  /\ exc' = [exc EXCEPT ![i] = Append(@, "except")]
  /\ propagated' = [propagated EXCEPT ![i] = TRUE]
  /\ Goto(i, "done")
  /\ UNCHANGED <<youtube_domains, injection_script, flow, entry, content, soup, head,
                 modified_content, log, probe, verdict>>

Handle(i) ==
  \/ CheckHost(i)
  \/ CheckHtml(i)
  \/ GetText(i)
  \/ LogIntercept(i)
  \/ ParseHtml(i)
  \/ ParseRaise(i)
  \/ LogParseError(i)
  \/ FindHead(i)
  \/ FindHtml(i)
  \/ WarnNoSkeleton(i)
  \/ InsertScript(i)
  \/ Serialize(i)
  \/ SetText(i)
  \/ SetContentLength(i)
  \/ LogSuccess(i)
  \/ Raise(i)
  \/ LogError(i)
  \/ LogErrorRaise(i)

Next == \E i \in Exchanges : Handle(i)

\* the state when the proxy has called response() for the flows fs[i]
Entered(fs) ==
  /\ youtube_domains = InitDomains
  /\ injection_script = InitScript
  /\ flow = fs
  /\ entry = fs
  /\ content = [i \in Exchanges |-> NoneText]
  /\ soup = [i \in Exchanges |-> EmptySoup]
  /\ head = [i \in Exchanges |-> NoneRef]
  /\ modified_content = [i \in Exchanges |-> NoneText]
  /\ exc = [i \in Exchanges |-> <<>>]
  /\ log = [i \in Exchanges |-> <<>>]
  /\ propagated = [i \in Exchanges |-> FALSE]
  /\ probe = [kind |-> "none", arg |-> None]
  /\ verdict = <<>>

\* The proxy has called response() for one exchange, any of Flows; it holds the other
\* exchanges and has not called response() for them.
Init ==
  \E f \in Flows :
     /\ Entered([i \in Exchanges |-> IF i = 1 THEN f ELSE OtherFlow])
     /\ pc = [i \in Exchanges |-> IF i = 1 THEN "host" ELSE "idle"]

Spec == Init /\ [][Next]_vars

\* handlers of NumExchanges exchanges at once
\* (the handlers are alike: the exchanges are numbered in the order of ConcurrentFlows)
InitConcurrent ==
  \E which \in [Exchanges -> 1..Len(ConcurrentFlows)] :
     /\ \A i, j \in Exchanges : i <= j => which[i] <= which[j]
     /\ Entered([i \in Exchanges |-> ConcurrentFlows[which[i]]])
     /\ pc = [i \in Exchanges |-> "host"]

SpecConcurrent == InitConcurrent /\ [][Next]_vars

\* ------------------------------------------- direct calls of the matcher

FACEBOOK_COM == <<"f", "a", "c", "e", "b", "o", "o", "k", ".", "c", "o", "m">>
EVIL_TEST == <<"n", "o", "t">> \o YOUTUBE_COM \o <<".", "e", "v", "i", "l", ".", "t", "e", "s", "t">>
TEXT_PLAIN == <<"t", "e", "x", "t", "/", "p", "l", "a", "i", "n">>
APPLICATION_XHTML == <<"a", "p", "p", "l", "i", "c", "a", "t", "i", "o", "n", "/",
                       "x", "h", "t", "m", "l", "+", "x", "m", "l">>

Upper(s) == [k \in 1..Len(s) |-> UpperChar(s[k])]

\* s with the characters at the positions of ups in upper case
Capitalized(s, ups) == [k \in 1..Len(s) |-> IF k \in ups THEN UpperChar(s[k]) ELSE s[k]]

CaseVariants(s) == {Upper(s)} \cup {Capitalized(s, ups) : ups \in SUBSET (1..CaseWidth)}

\* s without its k-th character
Without(s, k) == SubSeq(s, 1, k - 1) \o SubSeq(s, k + 1, Len(s))

ProbedHosts ==
  UNION {CaseVariants(s) :
           s \in {YOUTUBE_COM, M_YOUTUBE_COM, WWW_YOUTUBE_COM, MUSIC_YOUTUBE_COM,
                  GOOGLE_COM, FACEBOOK_COM, EVIL_TEST, <<>>}
                 \cup {Without(YOUTUBE_COM, k) : k \in 1..Len(YOUTUBE_COM)}}
  \cup {None}

ProbedResponses ==
  {Response(c, <<>>) :
     c \in UNION {CaseVariants(s) :
                    s \in {TEXT_HTML, HTML_UTF8, HTML_LATIN1, APPLICATION_JSON,
                           TEXT_PLAIN, APPLICATION_XHTML, <<>>}
                          \cup {Without(TEXT_HTML, k) : k \in 1..Len(TEXT_HTML)}}
           \cup {None}}

\* a test or another addon calls self.is_youtube_domain(host)
CallIsYoutubeDomain ==
  /\ probe.kind = "host"
  /\ verdict = <<>>
  /\ verdict' = <<is_youtube_domain(youtube_domains, probe.arg)>>
  /\ UNCHANGED <<youtube_domains, injection_script, flow, entry, pc, content, soup, head,
                 modified_content, exc, log, propagated, probe>>

\* a test or another addon calls self.is_html_response(response)
CallIsHtmlResponse ==
  /\ probe.kind = "response"
  /\ verdict = <<>>
  /\ verdict' = <<is_html_response(probe.arg)>>
  /\ UNCHANGED <<youtube_domains, injection_script, flow, entry, pc, content, soup, head,
                 modified_content, exc, log, propagated, probe>>

NextMatch == CallIsYoutubeDomain \/ CallIsHtmlResponse

\* the addon is constructed and handles no exchange; one call of the matcher is pending
InitMatch ==
  /\ youtube_domains = InitDomains
  /\ injection_script = InitScript
  /\ flow = [i \in Exchanges |-> OtherFlow]
  /\ entry = flow
  /\ pc = [i \in Exchanges |-> "idle"]
  /\ content = [i \in Exchanges |-> NoneText]
  /\ soup = [i \in Exchanges |-> EmptySoup]
  /\ head = [i \in Exchanges |-> NoneRef]
  /\ modified_content = [i \in Exchanges |-> NoneText]
  /\ exc = [i \in Exchanges |-> <<>>]
  /\ log = [i \in Exchanges |-> <<>>]
  /\ propagated = [i \in Exchanges |-> FALSE]
  /\ \/ \E h \in ProbedHosts : probe = [kind |-> "host", arg |-> h]
     \/ \E r \in ProbedResponses : probe = [kind |-> "response", arg |-> r]
  /\ verdict = <<>>

SpecMatch == InitMatch /\ [][NextMatch]_vars

\* ------------------------------------------ one handler, run on its own

\* The statements response() executes on flow f when none raises, in order
StatementsOf(f) ==
  IF ~is_youtube_domain(InitDomains, f.request.pretty_host) THEN <<"host">>
  ELSE IF ~is_html_response(f.response) THEN <<"host", "content_type">>
  ELSE IF f.response.text = NoneText \/ f.response.text = <<>>
       THEN <<"host", "content_type", "get_text">>
  ELSE LET tree == BeautifulSoup(f.response.text)
           start == <<"host", "content_type", "get_text", "log_intercept", "parse",
                      "find_head">>
           finish == <<"script", "serialize", "set_text", "content_length", "log_success">>
       IN  IF Find(tree, "head") # NoneRef THEN start \o finish
           ELSE IF Find(tree, "html") # NoneRef THEN start \o <<"find_html">> \o finish
           ELSE start \o <<"find_html", "warn">>

\* the script element response() builds
ScriptTag == Tag("script", <<NavigableString(Strip(InitScript))>>)

\* str(soup) after the insertions response() makes into the tree of text
Injection(text) ==
  LET tree == BeautifulSoup(text)
      found == Find(tree, "head")
      html_tag == Find(tree, "html")
  IN  IF found # NoneRef THEN Decode(InsertFirst(tree, found, ScriptTag))
      ELSE Decode(InsertFirst(InsertFirst(tree, html_tag, Tag("head", <<>>)),
                              html_tag \o <<1>>, ScriptTag))

\* The response that response() leaves when it handles flow f with no other handler
\* running and the statements raised are the first of them to raise.
RunAlone(f, raised) ==
  LET all == StatementsOf(f)
      stop == IF raised = <<>> THEN {}
              ELSE {k \in 1..Len(all) : all[k] = raised[1]}
      \* the statements that completed
      ran == IF stop = {} THEN all
             ELSE SubSeq(all, 1, (CHOOSE k \in stop : TRUE) - 1)
      completed(st) == \E k \in 1..Len(ran) : ran[k] = st
      injection == Injection(f.response.text)
  IN  [headers |-> IF completed("content_length")
                   THEN SetHeader(f.response.headers, "content-length",
                                  EncodedLen(injection, "utf-8"))
                   ELSE f.response.headers,
       text |-> IF completed("set_text") THEN injection ELSE f.response.text]

\* ---------------------------------------------------------------- claims

Returned(i) == pc[i] = "done"

\* the records of level `level` that the handler of exchange i logged
Logged(i, level) == {k \in 1..Len(log[i]) : log[i][k].level = level}

\* response() ran to its last statement: injected = true
Injected(i) ==
  /\ Returned(i)
  /\ exc[i] = <<>>
  /\ \E k \in Logged(i, "info") :
        log[i][k].text = "Successfully injected logging script into "

HasTag(text, n) == text # NoneText /\ \E k \in 1..Len(text) : text[k] = Open(n)

Eligible(f) ==
  /\ is_youtube_domain(InitDomains, f.request.pretty_host)
  /\ is_html_response(f.response)
  /\ f.response.text # NoneText
  /\ f.response.text # <<>>

\* t is the script with its leading and trailing whitespace removed
IsTrimmed(t, script) ==
  \E a \in 1..Len(script) : \E b \in a..Len(script) :
     /\ t = SubSeq(script, a, b)
     /\ ~IsSpace(script[a])
     /\ ~IsSpace(script[b])
     /\ \A k \in 1..Len(script) : (k < a \/ k > b) => IsSpace(script[k])

IsInjectedScript(node) ==
  /\ node.name = "script"
  /\ Len(node.children) = 1
  /\ node.children[1].name = "#text"
  /\ IsTrimmed(node.children[1].text, InitScript)

\* C1: no exception propagates out of response(), whatever statement raises
\* (the statement of the except clause included): the call always returns normally.
C1_NoExceptionPropagates == \A i \in Exchanges : ~propagated[i]

\* C2: whenever a statement of response() raised, the response (body and headers) is
\* on return what it was on entry.
C2_FaultLeavesResponseUntouched ==
  \A i \in Exchanges :
     (Returned(i) /\ exc[i] # <<>>) => flow[i].response = entry[i].response

\* C3: whenever response() injected, content-length on return is the byte length of
\* the body encoded to the wire charset of the response.
C3_ContentLengthIsWireLength ==
  \A i \in Exchanges :
     Injected(i) =>
        flow[i].response.headers["content-length"]
          = EncodedLen(flow[i].response.text, WireCharset(flow[i].response.headers))

\* C4: under any interleaving of the handlers' statements, when all have returned every
\* exchange has the response its handler leaves when run on its own; a statement of one
\* handler changes nothing of another exchange (so what a handler left at its return
\* stays); the domain list and the script are never written.
C4_ConcurrentAsSequential ==
  /\ []((\A i \in Exchanges : Returned(i)) =>
          \A i \in Exchanges : flow[i].response = RunAlone(entry[i], exc[i]))
  /\ [][\A i \in Exchanges :
          pc'[i] = pc[i] =>
             /\ flow'[i] = flow[i]
             /\ soup'[i] = soup[i]
             /\ head'[i] = head[i]
             /\ content'[i] = content[i]
             /\ modified_content'[i] = modified_content[i]]_vars
  /\ [][youtube_domains' = youtube_domains /\ injection_script' = injection_script]_vars

C4_Witness ==
  /\ Injected(1)
  /\ Injected(2)
  /\ entry[1].response.text # entry[2].response.text
  /\ flow[1].response.text # flow[2].response.text

\* C5: is_youtube_domain(H) is true iff H, lower-cased, contains an entry of the domain
\* list as a substring; the case of H does not change the result; None and "" give false.
C5_HostMatch ==
  (probe.kind = "host" /\ verdict # <<>>) =>
     LET H == probe.arg
         h == Lower(H)
     IN  /\ verdict[1] =
              (/\ H # None
               /\ \E d \in 1..Len(InitDomains) : \E a \in 1..Len(h) : \E b \in a..Len(h) :
                     SubSeq(h, a, b) = InitDomains[d])
         /\ H # None =>
              /\ verdict[1] = is_youtube_domain(youtube_domains, Upper(H))
              /\ verdict[1] = is_youtube_domain(youtube_domains, h)
         /\ H \in {None, <<>>} => verdict[1] = FALSE

C5_Witness ==
  /\ probe.kind = "host"
  /\ probe.arg = Upper(M_YOUTUBE_COM)
  /\ verdict = <<TRUE>>

\* C6: is_html_response is true iff the content-type value, lower-cased, contains
\* 'text/html'; no content-type header and a JSON media type both give false.
C6_HtmlMatch ==
  (probe.kind = "response" /\ verdict # <<>>) =>
     LET headers == probe.arg.headers
         present == "content-type" \in DOMAIN headers
     IN  /\ verdict[1] =
              (/\ present
               /\ LET v == Lower(headers["content-type"])
                  IN  \E a \in 1..Len(v) : \E b \in a..Len(v) : SubSeq(v, a, b) = TEXT_HTML)
         /\ ~present => verdict[1] = FALSE
         /\ (present /\ headers["content-type"] = APPLICATION_JSON) => verdict[1] = FALSE

C6_Witness ==
  /\ probe.kind = "response"
  /\ "content-type" \in DOMAIN probe.arg.headers
  /\ probe.arg.headers["content-type"] = Upper(HTML_UTF8)
  /\ verdict = <<TRUE>>

\* C7: when response() returns on an exchange it cannot inject into (host not eligible,
\* content type not HTML, body empty or absent, or neither an html nor a head element),
\* the body and all headers are what they were on entry.
C7_NoInjectionIsNoOp ==
  \A i \in Exchanges :
     (/\ Returned(i)
      /\ \/ ~Eligible(entry[i])
         \/ (~HasTag(entry[i].response.text, "html")
             /\ ~HasTag(entry[i].response.text, "head")))
     => flow[i].response = entry[i].response

C7_Witness ==
  /\ Returned(1)
  /\ Eligible(entry[1])
  /\ entry[1].response.text = <<Open("p"), Text("a")>>
  /\ Logged(1, "warning") # {}
  /\ flow[1] = entry[1]

\* C8: on an eligible exchange whose document has a head element, when no statement
\* raises, response() injects, and in the document it delivers the first child of that
\* head is a script element whose text is the injection script trimmed, followed by
\* the children the head had before.
C8_ScriptFirstInHead ==
  \A i \in Exchanges :
     (/\ Returned(i)
      /\ exc[i] = <<>>
      /\ Eligible(entry[i])
      /\ HasTag(entry[i].response.text, "head"))
     => /\ Injected(i)
        /\ LET before == BeautifulSoup(entry[i].response.text)
               after == BeautifulSoup(flow[i].response.text)
               ref == Find(before, "head")
               kids == NodeAt(after, ref).children
           IN  /\ NodeAt(after, ref).name = "head"
               /\ kids # <<>>
               /\ IsInjectedScript(kids[1])
               /\ Tail(kids) = NodeAt(before, ref).children

C8_Witness ==
  /\ Injected(1)
  /\ entry[1].response.text = <<Open("html"), Open("head"), Open("p")>>
  /\ flow[1].response.text[3] = Open("script")

\* C9: on an eligible exchange whose document has an html element and no head element,
\* when no statement raises, response() puts a new head element first among the
\* children of html, ahead of those it had, injects the script into it, replaces the
\* body and rewrites content-length.
C9_HeadSynthesized ==
  \A i \in Exchanges :
     (/\ Returned(i)
      /\ exc[i] = <<>>
      /\ Eligible(entry[i])
      /\ HasTag(entry[i].response.text, "html")
      /\ ~HasTag(entry[i].response.text, "head"))
     => /\ Injected(i)
        /\ LET before == BeautifulSoup(entry[i].response.text)
               after == BeautifulSoup(flow[i].response.text)
               ref == Find(before, "html")
               kids == NodeAt(after, ref).children
           IN  /\ NodeAt(after, ref).name = "html"
               /\ kids # <<>>
               /\ kids[1].name = "head"
               /\ Len(kids[1].children) = 1
               /\ IsInjectedScript(kids[1].children[1])
               /\ Tail(kids) = NodeAt(before, ref).children
        /\ flow[i].response.text # entry[i].response.text
        /\ flow[i].response.headers["content-length"]
             = EncodedLen(flow[i].response.text, "utf-8")

C9_Witness ==
  /\ Injected(1)
  /\ entry[1].response.text = <<Open("html"), Text("a"), Close("html")>>
  /\ flow[1].response.text[2] = Open("head")
  /\ flow[1].response.headers["content-length"] # entry[1].response.headers["content-length"]

\* C10: whenever the parser or any other statement raised and response() returned, the
\* handler logged exactly one error record, that record holds the URL of the exchange,
\* and the response is unmodified.
C10_FaultLogsUrlOnce ==
  \A i \in Exchanges :
     (Returned(i) /\ exc[i] # <<>> /\ ~propagated[i]) =>
        /\ Cardinality(Logged(i, "error")) = 1
        /\ \A k \in Logged(i, "error") : log[i][k].url = flow[i].request.pretty_url
        /\ flow[i].response = entry[i].response

=============================================================================
